---- MODULE Spec2Model ----
(***************************************************************************)
(* A model of src/src/App.tsx: the four linear-function mini games         *)
(* (DienBangGiaTriNhanh, TimToaDoAn, DoanThamSo, AiNhanhHon), the          *)
(* useAIFeedback hook and the App / GameHost router.                       *)
(*                                                                         *)
(* Execution model.  The UI is single threaded.  Every callback (an event  *)
(* handler, a setTimeout callback, the continuation of the awaited         *)
(* generateContent call) is one action: the state setters it calls are     *)
(* batched and committed together, and the effects whose dependencies      *)
(* changed run right after the commit, inside the same action.  A closure  *)
(* handed to setTimeout keeps the values of the render that created it;    *)
(* those values are stored in the timer's record.  State setters called    *)
(* for a component that has been unmounted change nothing.                 *)
(*                                                                         *)
(* Strings.  Template literals are built with \o and ToString, so that     *)
(* two options are equal exactly when the rendered strings are equal.      *)
(* Vietnamese literals are written in ASCII ("Co" for "Có", ...); distinct *)
(* literals of the source stay distinct.  The text typed into the number   *)
(* field of game 1 is a sequence of characters, read by ParseInt.          *)
(***************************************************************************)
EXTENDS Integers, Sequences, FiniteSets, TLC

VARIABLES
    activeGameId,   \* App: the selected game identifier, or Null (menu)
    inst,           \* number of the mounted game instance (0: none mounted yet)
    question,       \* games 1-3: the displayed question, or Null
    questions,      \* game 4: the list of quiz questions
    currentQIndex,  \* game 4: 0-based index of the displayed question
    score,          \* games 1-4
    timeLeft,       \* games 1, 4
    inputValue,     \* game 1: the text of the number field
    isAnswered,     \* games 1-4
    selectedOption, \* games 2-3: a string or Null; game 4: an index or Null
    isGameOver,     \* game 4
    feedback,       \* useAIFeedback: [message, type]
    isLoading,      \* useAIFeedback
    timers,         \* pending setTimeout callbacks
    requests,       \* generateContent calls that have not settled yet
    qNo,            \* serial number of the question (games 1-3) or round (game 4)
    hasKey,         \* whether API_KEY is configured (ai is not null)
    gen,            \* the last record produced by a question generator
    ev              \* the callback that ran last, and whether its guard dropped it

vars == <<activeGameId, inst, question, questions, currentQIndex, score,
          timeLeft, inputValue, isAnswered, selectedOption, isGameOver,
          feedback, isLoading, timers, requests, qNo, hasKey, gen, ev>>

\* JavaScript null for a question record
Null == [null |-> TRUE]

\* JavaScript null for activeGameId
NullId == "<null>"

\* JavaScript null for selectedOption; a selected value v is <<v>>
NoSelection == <<>>

-----------------------------------------------------------------------------
(* Bounds of the model *)

\* component instances mounted in one behaviour
MaxMounts == 1
\* questions generated per instance of games 1-3, rounds per instance of game 4
MaxQuestions == 2
\* values of each coefficient draw taken from the low end of its range
MaxDraw == 1
\* length of the arrays shuffleArray is called with on its own
MaxShuffleLen == 3

-----------------------------------------------------------------------------
(* Program constants *)

CountdownStart == 15
QuizLength == 10
PointsPerAnswer == 10
G1RangeAB == 19
G1RangeX == 11
G1OffsetAB == 9
G1OffsetX == 5
CoeffRange == 5
G2RangeX == 11
G2OffsetX == 5
G2OffsetRange == 2
QuestionTypes == 3
G4RangeB == 9
G4OffsetB == 4
G4Types == 5
G4RangeX == 5
G4DiffRange == 3
G4InterceptRange == 4

-----------------------------------------------------------------------------
(* JavaScript primitives *)

Abs(n) == IF n < 0 THEN -n ELSE n

Sign(positive) == IF positive THEN 1 ELSE -1

\* Math.floor(Math.random() * n)
FloorRandom(n) == 0 .. (n - 1)

\* `${n}` for an integer n (-0 prints as 0)
Str(n) == ToString(n)

\* `${p / q}`: the quotient when q divides p, else a non-integer rendering
DivStr(p, q) ==
    IF q = 0 THEN (IF p = 0 THEN "NaN" ELSE IF p > 0 THEN "Infinity" ELSE "-Infinity")
    ELSE IF \E n \in -Abs(p) .. Abs(p) : n * q = p
         THEN Str(CHOOSE n \in -Abs(p) .. Abs(p) : n * q = p)
         ELSE Str(p) \o "/" \o Str(q)

Range(s) == {s[i] : i \in 1 .. Len(s)}

\* Array.prototype.indexOf, 0-based, -1 when absent
IndexOf(s, e) ==
    IF e \in Range(s) THEN (CHOOSE i \in 1 .. Len(s) : s[i] = e /\ \A j \in 1 .. (i - 1) : s[j] # e) - 1
    ELSE -1

\* Set.prototype.add on an insertion-ordered Set
SetAdd(s, e) == IF e \in Range(s) THEN s ELSE Append(s, e)

\* Array.prototype.slice(0, n)
Slice(s, n) == SubSeq(s, 1, IF Len(s) < n THEN Len(s) ELSE n)

\* shuffleArray that fills every position with a random element of the array
ShuffleArrayResample(array) ==
    {[i \in 1 .. Len(array) |-> array[f[i]]] : f \in [1 .. Len(array) -> 1 .. Len(array)]}

\* shuffleArray: a copy sorted with a random comparator; the order the sort
\* produces is implementation-defined, every arrangement of the copy is possible
ShuffleArray(array) ==
    {[i \in 1 .. Len(array) |-> array[p[i]]] : p \in Permutations(1 .. Len(array))}

\* `${b >= 0 ? `+ ${b}` : `- ${Math.abs(b)}`}`
SignedTerm(b) == IF b >= 0 THEN "+ " \o Str(b) ELSE "- " \o Str(Abs(b))

formatEquation(a, b) == "y = " \o Str(a) \o "x " \o SignedTerm(b)

\* `(${p}, ${q})`
Point(p, q) == "(" \o Str(p) \o ", " \o Str(q) \o ")"

-----------------------------------------------------------------------------
(* parseInt(inputValue, 10) on a sequence of characters *)

Digits == <<"0", "1", "2", "3", "4", "5", "6", "7", "8", "9">>

IsDigit(c) == c \in Range(Digits)

DigitVal(c) == IndexOf(Digits, c)

\* a parsed number is [nan |-> FALSE, value |-> n]
NaN == [nan |-> TRUE, value |-> 0]

Num(n) == [nan |-> FALSE, value |-> n]

\* userAnswer === y for a parsed number and an integer y (NaN equals nothing)
StrictEq(u, y) == ~u.nan /\ u.value = y

\* length of the longest prefix of s made of digits
RECURSIVE DigitPrefixLen(_)
DigitPrefixLen(s) ==
    IF s = <<>> \/ ~IsDigit(Head(s)) THEN 0 ELSE 1 + DigitPrefixLen(Tail(s))

RECURSIVE DigitsValue(_, _)
DigitsValue(s, acc) ==
    IF s = <<>> THEN acc ELSE DigitsValue(Tail(s), acc * 10 + DigitVal(Head(s)))

RECURSIVE TrimLeft(_)
TrimLeft(s) == IF s # <<>> /\ Head(s) = " " THEN TrimLeft(Tail(s)) ELSE s

\* leading white space is skipped, an optional sign is read, then the longest
\* run of digits; NaN when there is no digit; the rest of the text is ignored
ParseInt(s) ==
    LET t == TrimLeft(s)
        signed == t # <<>> /\ Head(t) \in {"-", "+"}
        body == IF signed THEN Tail(t) ELSE t
        n == DigitPrefixLen(body)
        v == DigitsValue(SubSeq(body, 1, n), 0)
    IN  IF n = 0 THEN NaN
        ELSE IF signed /\ Head(t) = "-" THEN Num(-v) ELSE Num(v)

\* String(n) as a sequence of characters
RECURSIVE NatChars(_)
NatChars(n) ==
    IF n < 10 THEN <<Digits[n + 1]>> ELSE Append(NatChars(n \div 10), Digits[(n % 10) + 1])

IntChars(n) == IF n < 0 THEN <<"-">> \o NatChars(-n) ELSE NatChars(n)

-----------------------------------------------------------------------------
(* Question generators.  Each takes the values of its random draws.        *)

\* (Math.floor(Math.random() * n) + 1) * (Math.random() < 0.5 ? 1 : -1)
SignedDraw(r, positive) == (r + 1) * Sign(positive)

\* G1Generate with y computed from the draw, before a is redrawn
G1GenerateRawA(ra, rb, rx) ==
    LET a == IF ra - G1OffsetAB = 0 THEN 1 ELSE ra - G1OffsetAB
        b == rb - G1OffsetAB
        x == rx - G1OffsetX
        y == (ra - G1OffsetAB) * x + b
    IN  [a |-> a, b |-> b, x |-> x, y |-> y]

\* Game 1, generateQuestion: a is redrawn as 1 when the draw gives 0
G1Generate(ra, rb, rx) ==
    LET a == IF ra - G1OffsetAB = 0 THEN 1 ELSE ra - G1OffsetAB
        b == rb - G1OffsetAB
        x == rx - G1OffsetX
        y == a * x + b
    IN  [a |-> a, b |-> b, x |-> x, y |-> y]

\* G2CoeffPass with b drawn without the factor a
G2CoeffPassFreeB(ra, sa, rk, negate) ==
    LET a == SignedDraw(ra, sa)
        b0 == rk + 1
        b == IF negate THEN -b0 ELSE b0
    IN  [a |-> a, b |-> b]

\* Game 2, the do-while loop: one pass of its body
G2CoeffPass(ra, sa, rk, negate) ==
    LET a == SignedDraw(ra, sa)
        b0 == a * (rk + 1)
        b == IF negate THEN -b0 ELSE b0
    IN  [a |-> a, b |-> b]

\* Game 2, the coefficients the loop can leave with: a pass with b # 0
G2Coeffs(ras, rks) ==
    {c \in {G2CoeffPass(ra, sa, rk, negate) :
                ra \in ras, sa \in BOOLEAN, rk \in rks, negate \in BOOLEAN} : c.b # 0}

PromptYIntercept == "Do thi ham so cat truc tung (truc Oy) tai diem nao?"
PromptXIntercept == "Do thi ham so cat truc hoanh (truc Ox) tai diem nao?"
Yes == "Co"
No == "Khong"

\* Game 2, case 0: the four candidate options before the shuffle
G2Case0Options(a, b) == <<Point(0, b), Point(b, 0), Point(0, a), Point(a, 0)>>

G2Case0(a, b, options) ==
    [a |-> a, b |-> b, options |-> options, answer |-> Point(0, b),
     promptText |-> PromptYIntercept]

\* Game 2, case 1
G2Case1Answer(a, b) == "(" \o DivStr(-b, a) \o ", 0)"

G2Case1Options(a, b) ==
    <<G2Case1Answer(a, b), Point(0, b), "(0, " \o DivStr(-b, a) \o ")", Point(0, a)>>

G2Case1(a, b, options) ==
    [a |-> a, b |-> b, options |-> options, answer |-> G2Case1Answer(a, b),
     promptText |-> PromptXIntercept]

\* G2PointY with the offset drawn from 0 .. 1 (the + 1 left out)
G2PointYZeroOffset(a, b, x, isPointOnLine, up, rm) ==
    LET y == a * x + b
    IN  IF isPointOnLine THEN y ELSE y + Sign(up) * rm

\* Game 2, case 2: the y of the displayed point
G2PointY(a, b, x, isPointOnLine, up, rm) ==
    LET y == a * x + b
    IN  IF isPointOnLine THEN y ELSE y + Sign(up) * (rm + 1)

G2Case2(a, b, rx, isPointOnLine, up, rm) ==
    LET x == rx - G2OffsetX
        pointY == G2PointY(a, b, x, isPointOnLine, up, rm)
    IN  [a |-> a, b |-> b, options |-> <<Yes, No>>,
         answer |-> IF isPointOnLine THEN Yes ELSE No,
         promptText |-> "Diem M" \o Point(x, pointY) \o " co thuoc do thi ham so khong?"]

PromptEquation == "Do thi tren tuong ung voi phuong trinh nao?"
PromptMonotone == "Ham so duoc bieu dien boi do thi nay dong bien hay nghich bien?"
PromptSigns == "Xac dinh dau cua cac tham so a va b."
Increasing == "Dong bien"
Decreasing == "Nghich bien"

\* Game 3, case 0: the wrongOptions Set, then at most three of its members
G3WrongOptions(a, b) ==
    LET s1 == SetAdd(<<>>, formatEquation(-a, b))
        s2 == SetAdd(s1, formatEquation(a, -b))
        s3 == SetAdd(s2, formatEquation(-a, -b))
        s4 == IF Len(s3) < 3 THEN SetAdd(s3, formatEquation(a * 2, b)) ELSE s3
    IN  Slice(s4, 3)

G3Case0Options(a, b) == <<formatEquation(a, b)>> \o G3WrongOptions(a, b)

G3Case0(a, b, options) ==
    [a |-> a, b |-> b, options |-> options, answer |-> formatEquation(a, b),
     promptText |-> PromptEquation]

G3Case1(a, b) ==
    [a |-> a, b |-> b, options |-> <<Increasing, Decreasing>>,
     answer |-> IF a > 0 THEN Increasing ELSE Decreasing,
     promptText |-> PromptMonotone]

\* `a ${signA} 0, b ${signB} 0`
SignPair(signA, signB) == "a " \o signA \o " 0, b " \o signB \o " 0"

\* Game 3, case 2: allSignOptions in insertion order
G3SignOptions ==
    SetAdd(SetAdd(SetAdd(SetAdd(<<>>, SignPair(">", ">")), SignPair(">", "<")),
                  SignPair("<", ">")), SignPair("<", "<"))

G3Case2(a, b, options) ==
    [a |-> a, b |-> b, options |-> options,
     answer |-> SignPair(IF a > 0 THEN ">" ELSE "<", IF b > 0 THEN ">" ELSE "<"),
     promptText |-> PromptSigns]

\* Game 4: `Cho hàm số y = ${a}x ${...}.`
G4QuestionText(a, b) == "Cho ham so " \o formatEquation(a, b) \o "."

G4Case0(a, b) ==
    [prompt |-> G4QuestionText(a, b) \o " Ham so nay dong bien hay nghich bien?",
     options |-> <<Increasing, Decreasing>>,
     answerIndex |-> IF a > 0 THEN 0 ELSE 1]

G4Case1Options(a, b) == <<Point(0, b), Point(b, 0), Point(0, a), Point(0, -b)>>

G4Case1(a, b, options) ==
    [prompt |-> G4QuestionText(a, b) \o " Do thi cat truc tung tai diem nao?",
     options |-> options,
     answerIndex |-> IndexOf(options, Point(0, b))]

G4PointY(a, b, x, isPointOnLine, up) ==
    LET y == a * x + b
    IN  IF isPointOnLine THEN y ELSE y + Sign(up)

G4Case2(a, b, rx, isPointOnLine, up) ==
    LET x == rx + 1
        pointY == G4PointY(a, b, x, isPointOnLine, up)
    IN  [prompt |-> G4QuestionText(a, b) \o " Diem M" \o Point(x, pointY)
                        \o " co thuoc do thi khong?",
         options |-> <<Yes, No>>,
         answerIndex |-> IF isPointOnLine THEN 0 ELSE 1]

\* b + (Math.random() < 0.5 ? 1 : -1) * (Math.floor(Math.random()*3)+1) || b+1
G4BDiff(b, up, rd) ==
    LET d == b + Sign(up) * (rd + 1)
    IN  IF d = 0 THEN b + 1 ELSE d

G4Case3Options(a, b, bDiff) ==
    <<formatEquation(a, bDiff),
      formatEquation(-a, b),
      formatEquation(a, b),
      "y = " \o Str(a + 1) \o "x "
          \o (IF b >= 0 THEN "+ " \o Str(bDiff) ELSE "- " \o Str(Abs(bDiff)))>>

G4Case3(a, b, bDiff, options) ==
    [prompt |-> G4QuestionText(a, b) \o " Duong thang nao sau day song song voi no?",
     options |-> options,
     answerIndex |-> IndexOf(options, formatEquation(a, bDiff))]

\* Game 4, case 4: a and b are drawn again
G4InterceptA(ra, sa) == SignedDraw(ra, sa)

G4InterceptB(a, rk, sb) == a * (rk + 1) * Sign(sb)

G4Case4Answer(a, b) == "(" \o DivStr(-b, a) \o ", 0)"

G4Case4Options(a, b) ==
    <<G4Case4Answer(a, b), Point(0, b), "(0, " \o DivStr(-b, a) \o ")", Point(b, 0)>>

G4Case4(a, b, options) ==
    [prompt |-> G4QuestionText(a, b) \o " Do thi cat truc hoanh tai diem nao?",
     options |-> options,
     answerIndex |-> IndexOf(options, G4Case4Answer(a, b))]

-----------------------------------------------------------------------------
(* The random draws the state machine takes: a sample of each generator's   *)
(* range (the generators are checked on their whole range under SpecGen).   *)

SampleDraw(n) == {r \in FloorRandom(n) : r < MaxDraw}

Reverse(s) == [i \in 1 .. Len(s) |-> s[Len(s) + 1 - i]]

\* two of the arrangements shuffleArray can return
ShuffleSample(array) == {array, Reverse(array)}

G1QuestionSample ==
    {G1Generate(ra, rb, rx) :
        ra \in SampleDraw(G1RangeAB), rb \in SampleDraw(G1RangeAB), rx \in SampleDraw(G1RangeX)}

\* what the player can have typed into the number field for question q
TypedInputs(q) ==
    {<<>>, IntChars(q.y), IntChars(q.y + 1), IntChars(q.y) \o <<".", "5">>}

G2QuestionSample ==
    UNION {
        {G2Case0(c.a, c.b, o) : o \in ShuffleSample(G2Case0Options(c.a, c.b))}
        \cup {G2Case1(c.a, c.b, o) : o \in ShuffleSample(G2Case1Options(c.a, c.b))}
        \cup {G2Case2(c.a, c.b, rx, onLine, up, rm) :
                rx \in SampleDraw(G2RangeX), onLine \in BOOLEAN, up \in BOOLEAN,
                rm \in SampleDraw(G2OffsetRange)}
        : c \in G2Coeffs(SampleDraw(CoeffRange), SampleDraw(CoeffRange))}

G3CoeffSample == {SignedDraw(r, positive) : r \in SampleDraw(CoeffRange), positive \in BOOLEAN}

G3QuestionSample ==
    UNION {
        {G3Case0(a, b, o) : o \in ShuffleSample(G3Case0Options(a, b))}
        \cup {G3Case1(a, b)}
        \cup {G3Case2(a, b, o) : o \in ShuffleSample(G3SignOptions)}
        : a \in G3CoeffSample, b \in G3CoeffSample}

QuestionSample(game) == IF game = "game2" THEN G2QuestionSample ELSE G3QuestionSample

\* question i (0-based) of the sampled quiz number s: every draw is fixed by i and s
G4SampleQuestion(s, i) ==
    LET type == (i + s) % G4Types
        a == SignedDraw((i + s) % CoeffRange, i % 2 = 0)
        b == ((2 * i + s) % G4RangeB) - G4OffsetB
        up == i % 2 = 1
        pick(array) == IF i % 3 = 0 THEN Reverse(array) ELSE array
        a4 == G4InterceptA(i % G4InterceptRange, i % 2 = 0)
        b4 == G4InterceptB(a4, (i + 1) % G4InterceptRange, i % 4 < 2)
        bDiff == G4BDiff(b, up, i % G4DiffRange)
    IN  CASE type = 0 -> G4Case0(a, b)
          [] type = 1 -> G4Case1(a, b, pick(G4Case1Options(a, b)))
          [] type = 2 -> G4Case2(a, b, i % G4RangeX, i % 4 < 2, up)
          [] type = 3 -> G4Case3(a, b, bDiff, pick(G4Case3Options(a, b, bDiff)))
          [] OTHER -> G4Case4(a4, b4, pick(G4Case4Options(a4, b4)))

\* some of the lists generateQuiz can produce
G4QuizSample ==
    {[i \in 1 .. QuizLength |-> G4SampleQuestion(s, i - 1)] : s \in SampleDraw(G4Types)}

-----------------------------------------------------------------------------
(* useAIFeedback *)

FallbackCorrect == "Chinh xac! Lam tot lam!"
FallbackIncorrect == "Khong dung roi. Co gang lai nhe!"

\* type === 'correct' ? ... : ...
FallbackMessage(type) == IF type = "correct" THEN FallbackCorrect ELSE FallbackIncorrect

\* a response.text of the remote model
AiTexts == {"<ai text>"}

EmptyFeedback == [message |-> "", type |-> ""]

GameIds == {"game1", "game2", "game3", "game4"}

\* the component instance i is mounted
Live(i) == i = inst /\ activeGameId \in GameIds

\* getFeedback(prompt, type) called by instance i: the feedback it leaves
\* (setters of an unmounted component change nothing)
FeedbackOnCall(i, type) ==
    IF ~Live(i) THEN feedback
    ELSE IF ~hasKey THEN [message |-> FallbackMessage(type), type |-> type]
    ELSE [message |-> "", type |-> type]

LoadingOnCall(i) == IF Live(i) /\ hasKey THEN TRUE ELSE isLoading

\* the generateContent call started by getFeedback; numCorrect is the count
\* named in the prompt of game 4 (-1 in games 1-3)
Request(i, type, numCorrect) ==
    [inst |-> i, qNo |-> IF Live(i) THEN qNo ELSE 0, type |-> type, numCorrect |-> numCorrect]

RequestsOnCall(i, type, numCorrect) ==
    IF hasKey THEN requests \cup {Request(i, type, numCorrect)} ELSE requests

\* the awaited call resolves with response.text
FeedbackResolve(r, text) ==
    /\ r \in requests
    /\ ev' = "resolve"
    /\ requests' = requests \ {r}
    /\ feedback' = IF Live(r.inst) THEN [message |-> text, type |-> r.type] ELSE feedback
    /\ isLoading' = IF Live(r.inst) THEN FALSE ELSE isLoading
    /\ UNCHANGED <<activeGameId, inst, question, questions, currentQIndex, score,
                   timeLeft, inputValue, isAnswered, selectedOption, isGameOver,
                   timers, qNo, hasKey, gen>>

\* FeedbackReject with the error's text stored as the message
FeedbackRejectRaw(r) ==
    /\ r \in requests
    /\ ev' = "reject"
    /\ requests' = requests \ {r}
    /\ feedback' = IF Live(r.inst)
                   THEN [message |-> "<error text>", type |-> r.type]
                   ELSE feedback
    /\ isLoading' = IF Live(r.inst) THEN FALSE ELSE isLoading
    /\ UNCHANGED <<activeGameId, inst, question, questions, currentQIndex, score,
                   timeLeft, inputValue, isAnswered, selectedOption, isGameOver,
                   timers, qNo, hasKey, gen>>

\* the awaited call rejects: catch, then finally
FeedbackReject(r) ==
    /\ r \in requests
    /\ ev' = "reject"
    /\ requests' = requests \ {r}
    /\ feedback' = IF Live(r.inst)
                   THEN [message |-> FallbackMessage(r.type), type |-> r.type]
                   ELSE feedback
    /\ isLoading' = IF Live(r.inst) THEN FALSE ELSE isLoading
    /\ UNCHANGED <<activeGameId, inst, question, questions, currentQIndex, score,
                   timeLeft, inputValue, isAnswered, selectedOption, isGameOver,
                   timers, qNo, hasKey, gen>>

-----------------------------------------------------------------------------
(* Timers *)

\* TickTimer whose callback closed over the timeLeft of the first render
TickTimerStale(i, game, captured) ==
    [kind |-> "tick", inst |-> i, game |-> game, timeLeft |-> CountdownStart,
     currentQIndex |-> 0, score |-> 0]

\* setTimeout(() => setTimeLeft(timeLeft - 1), 1000): the callback of game 1
\* closes over timeLeft (game 4 uses the updater t => t - 1)
TickTimer(i, game, captured) ==
    [kind |-> "tick", inst |-> i, game |-> game, timeLeft |-> captured,
     currentQIndex |-> 0, score |-> 0]

\* setTimeout(generateQuestion, 3000)
GenerateTimer(i, game) ==
    [kind |-> "generateQuestion", inst |-> i, game |-> game, timeLeft |-> 0,
     currentQIndex |-> 0, score |-> 0]

\* setTimeout(nextQuestion, 1500): nextQuestion closes over currentQIndex and score
NextTimer(i, idx, sc) ==
    [kind |-> "nextQuestion", inst |-> i, game |-> "game4", timeLeft |-> 0,
     currentQIndex |-> idx, score |-> sc]

\* CountdownEffect that never schedules the next countdown timer
CountdownEffectStops(ts, game, depsChanged, running, captured) ==
    IF ~depsChanged THEN ts
    ELSE {t \in ts : ~(t.kind = "tick" /\ t.inst = inst)}

\* The countdown effect after a commit.  When one of its dependencies changed
\* its cleanup clears the pending countdown timer, and it schedules a new one
\* when the countdown is running; otherwise the pending timer stays.
CountdownEffect(ts, game, depsChanged, running, captured) ==
    IF ~depsChanged THEN ts
    ELSE {t \in ts : ~(t.kind = "tick" /\ t.inst = inst)}
            \cup (IF running THEN {TickTimer(inst, game, captured)} ELSE {})

-----------------------------------------------------------------------------
(* App and GameHost *)

\* property names every object literal inherits from Object.prototype whose
\* value is a function
InheritedFunctions == {"constructor", "toString", "valueOf", "hasOwnProperty"}

\* the inherited accessor whose value is the prototype object itself
InheritedObject == "__proto__"

\* the identifiers handleStartGame is given: the four cards, and unknown ones
StartIds == GameIds \cup {"game5", "constructor", InheritedObject}

\* activeGameId ? <GameHost/> : <MainMenu/>
InGame == activeGameId # NullId /\ activeGameId # ""

\* gameComponents[gameId] || <p>Trò chơi không tồn tại.</p>
\* The lookup on the object literal also finds inherited properties: a
\* function is truthy and React renders nothing for it; the prototype object
\* is truthy and React throws on it ("Objects are not valid as a React
\* child"), which unmounts the whole tree.
Rendered == IF ~InGame THEN "menu"
            ELSE IF activeGameId \in GameIds THEN activeGameId
            ELSE IF activeGameId \in InheritedFunctions THEN "nothing"
            ELSE IF activeGameId = InheritedObject THEN "error"
            ELSE "not found"

Init ==
    /\ activeGameId = NullId
    /\ inst = 0
    /\ question = Null
    /\ questions = <<>>
    /\ currentQIndex = 0
    /\ score = 0
    /\ timeLeft = CountdownStart
    /\ inputValue = <<>>
    /\ isAnswered = FALSE
    /\ selectedOption = NoSelection
    /\ isGameOver = FALSE
    /\ feedback = EmptyFeedback
    /\ isLoading = FALSE
    /\ timers = {}
    /\ requests = {}
    /\ qNo = 0
    /\ hasKey \in BOOLEAN
    /\ gen = [game |-> "none"]
    /\ ev = "init"

\* the useState initial values of a game component
InitialState ==
    /\ question' = Null
    /\ questions' = <<>>
    /\ currentQIndex' = 0
    /\ score' = 0
    /\ timeLeft' = CountdownStart
    /\ inputValue' = <<>>
    /\ isAnswered' = FALSE
    /\ selectedOption' = NoSelection
    /\ isGameOver' = FALSE
    /\ feedback' = EmptyFeedback
    /\ isLoading' = FALSE
    /\ qNo' = 0

\* handleBackToMenu: the component is unmounted, its state is dropped and the
\* cleanup of its countdown effect runs; nothing else is cleared
HandleBackToMenu ==
    /\ InGame
    /\ Rendered # "error"
    /\ ev' = "back"
    /\ activeGameId' = NullId
    /\ InitialState
    /\ timers' = {t \in timers : ~(t.kind = "tick" /\ t.inst = inst /\ Live(inst))}
    /\ UNCHANGED <<inst, requests, hasKey, gen>>

\* handleStartGame with an identifier GameHost has no component for
HandleStartUnknown(gameId) ==
    /\ ~InGame
    /\ gameId \notin GameIds
    /\ ev' = "start"
    /\ activeGameId' = gameId
    /\ UNCHANGED <<inst, question, questions, currentQIndex, score, timeLeft,
                   inputValue, isAnswered, selectedOption, isGameOver, feedback,
                   isLoading, timers, requests, qNo, hasKey, gen>>

-----------------------------------------------------------------------------
(* Game 1: DienBangGiaTriNhanh *)

\* handleStartGame('game1'): mount; the mount effects call generateQuestion
\* and start the countdown
G1Mount ==
    /\ ~InGame
    /\ inst < MaxMounts
    /\ ev' = "start"
    /\ activeGameId' = "game1"
    /\ inst' = inst + 1
    /\ \E q \in G1QuestionSample : question' = q
    /\ questions' = <<>>
    /\ currentQIndex' = 0
    /\ score' = 0
    /\ timeLeft' = CountdownStart
    /\ inputValue' = <<>>
    /\ isAnswered' = FALSE
    /\ selectedOption' = NoSelection
    /\ isGameOver' = FALSE
    /\ feedback' = EmptyFeedback
    /\ isLoading' = FALSE
    /\ qNo' = 1
    /\ timers' = timers \cup {TickTimer(inst + 1, "game1", CountdownStart)}
    /\ UNCHANGED <<requests, hasKey, gen>>

\* onChange of the number field (the field is disabled once answered)
G1Change ==
    /\ Live(inst) /\ activeGameId = "game1"
    /\ ~isAnswered
    /\ ev' = "change"
    /\ \E v \in TypedInputs(question) : inputValue' = v
    /\ UNCHANGED <<activeGameId, inst, question, questions, currentQIndex, score,
                   timeLeft, isAnswered, selectedOption, isGameOver, feedback,
                   isLoading, timers, requests, qNo, hasKey, gen>>

\* G1SubmitIgnored without the isAnswered test
G1SubmitIgnoredNoLock == question = Null

\* if (isAnswered || !question) return;
G1SubmitIgnored == isAnswered \/ question = Null

\* G1IsCorrect without the isTimeout test
G1IsCorrectOnTimeout(isTimeout) == StrictEq(ParseInt(inputValue), question.y)

\* const isCorrect = !isTimeout && userAnswer === question.y
G1IsCorrect(isTimeout) == ~isTimeout /\ StrictEq(ParseInt(inputValue), question.y)

G1FeedbackType(isTimeout) == IF G1IsCorrect(isTimeout) THEN "correct" ELSE "incorrect"

\* ScoreAfter with a point for every judgement
ScoreAfterAlways(isCorrect) == score + PointsPerAnswer

\* the score after a judgement
ScoreAfter(isCorrect) == IF isCorrect THEN score + PointsPerAnswer ELSE score

\* handleSubmit(isTimeout) with the countdown at tl, then the commit: the
\* countdown effect sees isAnswered and schedules nothing
G1HandleSubmit(isTimeout, tl, ts) ==
    IF G1SubmitIgnored
    THEN /\ timers' = ts
         /\ timeLeft' = tl
         /\ UNCHANGED <<isAnswered, score, feedback, isLoading, requests>>
    ELSE /\ isAnswered' = TRUE
         /\ timeLeft' = tl
         /\ score' = ScoreAfter(G1IsCorrect(isTimeout))
         /\ feedback' = FeedbackOnCall(inst, G1FeedbackType(isTimeout))
         /\ isLoading' = LoadingOnCall(inst)
         /\ requests' = RequestsOnCall(inst, G1FeedbackType(isTimeout), -1)
         /\ timers' = CountdownEffect(ts, "game1", TRUE, FALSE, tl)
                        \cup {GenerateTimer(inst, "game1")}

\* onSubmit of the form
G1Submit ==
    /\ Live(inst) /\ activeGameId = "game1"
    /\ ev' = IF G1SubmitIgnored THEN "submit ignored" ELSE "submit"
    /\ G1HandleSubmit(FALSE, timeLeft, timers)
    /\ UNCHANGED <<activeGameId, inst, question, questions, currentQIndex,
                   inputValue, selectedOption, isGameOver, qNo, hasKey, gen>>

\* the countdown timer fires: setTimeLeft(timeLeft - 1) with the captured
\* timeLeft; the effect then either schedules the next tick or, at 0, calls
\* handleSubmit(true)
G1Tick(t) ==
    /\ t \in timers /\ t.kind = "tick" /\ t.game = "game1" /\ Live(t.inst)
    /\ LET tl == t.timeLeft - 1
           rest == timers \ {t}
       IN  IF isAnswered \/ tl > 0
           THEN /\ ev' = "tick"
                /\ timeLeft' = tl
                /\ timers' = CountdownEffect(rest, "game1", tl # timeLeft, ~isAnswered /\ tl > 0, tl)
                /\ UNCHANGED <<isAnswered, score, feedback, isLoading, requests>>
           ELSE /\ ev' = IF G1SubmitIgnored THEN "timeout ignored" ELSE "timeout"
                /\ G1HandleSubmit(TRUE, tl, rest)
    /\ UNCHANGED <<activeGameId, inst, question, questions, currentQIndex,
                   inputValue, selectedOption, isGameOver, qNo, hasKey, gen>>

\* G1GenerateFire with the setters committed one by one: the render after
\* setIsAnswered(false) still has the old timeLeft, and at 0 its countdown
\* effect calls handleSubmit(true) on the new question before setTimeLeft(15)
G1GenerateFireUnbatched(t) ==
    /\ t \in timers /\ t.kind = "generateQuestion" /\ t.game = "game1"
    /\ IF Live(t.inst)
       THEN /\ qNo < MaxQuestions
            /\ \E q \in G1QuestionSample : question' = q
            /\ inputValue' = <<>>
            /\ timeLeft' = CountdownStart
            /\ qNo' = qNo + 1
            /\ IF timeLeft = 0
               THEN /\ ev' = "timeout"
                    /\ isAnswered' = TRUE
                    /\ feedback' = FeedbackOnCall(inst, "incorrect")
                    /\ isLoading' = LoadingOnCall(inst)
                    /\ requests' = RequestsOnCall(inst, "incorrect", -1)
                    /\ timers' = (timers \ {t}) \cup {GenerateTimer(inst, "game1")}
               ELSE /\ ev' = "generate"
                    /\ isAnswered' = FALSE
                    /\ feedback' = EmptyFeedback
                    /\ timers' = CountdownEffect(timers \ {t}, "game1", TRUE, TRUE,
                                                 CountdownStart)
                    /\ UNCHANGED <<isLoading, requests>>
       ELSE /\ ev' = "generate"
            /\ timers' = timers \ {t}
            /\ UNCHANGED <<feedback, question, inputValue, isAnswered, timeLeft, qNo,
                           isLoading, requests>>
    /\ UNCHANGED <<activeGameId, inst, questions, currentQIndex, score,
                   selectedOption, isGameOver, hasKey, gen>>

\* setTimeout(generateQuestion, 3000) fires.  Mounted: resetFeedback, a new
\* question, the field cleared, isAnswered false, timeLeft 15, and the countdown
\* effect runs if (timeLeft, isAnswered) changed.  Unmounted: every setter is
\* a no-op.
G1GenerateFire(t) ==
    /\ t \in timers /\ t.kind = "generateQuestion" /\ t.game = "game1"
    /\ ev' = "generate"
    /\ IF Live(t.inst)
       THEN /\ qNo < MaxQuestions
            /\ feedback' = EmptyFeedback
            /\ \E q \in G1QuestionSample : question' = q
            /\ inputValue' = <<>>
            /\ isAnswered' = FALSE
            /\ timeLeft' = CountdownStart
            /\ qNo' = qNo + 1
            /\ timers' = CountdownEffect(timers \ {t}, "game1",
                             isAnswered \/ timeLeft # CountdownStart, TRUE, CountdownStart)
       ELSE /\ timers' = timers \ {t}
            /\ UNCHANGED <<feedback, question, inputValue, isAnswered, timeLeft, qNo>>
    /\ UNCHANGED <<activeGameId, inst, questions, currentQIndex, score,
                   selectedOption, isGameOver, isLoading, requests, hasKey, gen>>

-----------------------------------------------------------------------------
(* Games 2 and 3: TimToaDoAn and DoanThamSo (the same handlers, another     *)
(* generator)                                                               *)

\* handleStartGame('game2' | 'game3'): mount; the mount effect calls
\* generateQuestion
MCMount(game) ==
    /\ ~InGame
    /\ game \in {"game2", "game3"}
    /\ inst < MaxMounts
    /\ ev' = "start"
    /\ activeGameId' = game
    /\ inst' = inst + 1
    /\ \E q \in QuestionSample(game) : question' = q
    /\ questions' = <<>>
    /\ currentQIndex' = 0
    /\ score' = 0
    /\ timeLeft' = CountdownStart
    /\ inputValue' = <<>>
    /\ isAnswered' = FALSE
    /\ selectedOption' = NoSelection
    /\ isGameOver' = FALSE
    /\ feedback' = EmptyFeedback
    /\ isLoading' = FALSE
    /\ qNo' = 1
    /\ UNCHANGED <<timers, requests, hasKey, gen>>

\* if (isAnswered) return;
MCAnswerIgnored == isAnswered

\* const isCorrect = option === question!.answer
MCIsCorrect(option) == option = question.answer

MCFeedbackType(option) == IF MCIsCorrect(option) THEN "correct" ELSE "incorrect"

\* handleAnswer(option)
MCHandleAnswer(option) ==
    /\ ev' = IF MCAnswerIgnored THEN "click ignored" ELSE "click"
    /\ IF MCAnswerIgnored
       THEN UNCHANGED <<isAnswered, selectedOption, score, feedback, isLoading,
                        requests, timers>>
       ELSE /\ isAnswered' = TRUE
            /\ selectedOption' = <<option>>
            /\ score' = ScoreAfter(MCIsCorrect(option))
            /\ feedback' = FeedbackOnCall(inst, MCFeedbackType(option))
            /\ isLoading' = LoadingOnCall(inst)
            /\ requests' = RequestsOnCall(inst, MCFeedbackType(option), -1)
            /\ timers' = timers \cup {GenerateTimer(inst, activeGameId)}
    /\ UNCHANGED <<activeGameId, inst, question, questions, currentQIndex,
                   timeLeft, inputValue, isGameOver, qNo, hasKey, gen>>

\* className of the button of option opt once the question is answered:
\* opt === question.answer ? 'correct' : (opt === selectedOption ? 'incorrect' : '')
MCButtonClass(opt) ==
    IF ~isAnswered THEN ""
    ELSE IF opt = question.answer THEN "correct"
    ELSE IF <<opt>> = selectedOption THEN "incorrect"
    ELSE ""

\* the click on one of the rendered options
MCClick ==
    /\ Live(inst) /\ activeGameId \in {"game2", "game3"}
    /\ \E option \in Range(question.options) : MCHandleAnswer(option)

\* setTimeout(generateQuestion, 3000) fires in game 2 or 3
MCGenerateFire(t) ==
    /\ t \in timers /\ t.kind = "generateQuestion" /\ t.game \in {"game2", "game3"}
    /\ ev' = "generate"
    /\ timers' = timers \ {t}
    /\ IF Live(t.inst)
       THEN /\ qNo < MaxQuestions
            /\ feedback' = EmptyFeedback
            /\ isAnswered' = FALSE
            /\ selectedOption' = NoSelection
            /\ \E q \in QuestionSample(t.game) : question' = q
            /\ qNo' = qNo + 1
       ELSE UNCHANGED <<feedback, isAnswered, selectedOption, question, qNo>>
    /\ UNCHANGED <<activeGameId, inst, questions, currentQIndex, score, timeLeft,
                   inputValue, isGameOver, isLoading, requests, hasKey, gen>>

-----------------------------------------------------------------------------
(* Game 4: AiNhanhHon *)

\* handleStartGame('game4'): mount; the mount effects call resetGame and start
\* the countdown
G4Mount ==
    /\ ~InGame
    /\ inst < MaxMounts
    /\ ev' = "start"
    /\ activeGameId' = "game4"
    /\ inst' = inst + 1
    /\ question' = Null
    /\ \E quiz \in G4QuizSample : questions' = quiz
    /\ currentQIndex' = 0
    /\ score' = 0
    /\ timeLeft' = CountdownStart
    /\ inputValue' = <<>>
    /\ isAnswered' = FALSE
    /\ selectedOption' = NoSelection
    /\ isGameOver' = FALSE
    /\ feedback' = EmptyFeedback
    /\ isLoading' = FALSE
    /\ qNo' = 1
    /\ timers' = timers \cup {TickTimer(inst + 1, "game4", 0)}
    /\ UNCHANGED <<requests, hasKey, gen>>

\* if (isAnswered) return;
G4AnswerIgnored == isAnswered

\* optionIndex === questions[currentQIndex].answerIndex
G4IsCorrect(optionIndex) == optionIndex = questions[currentQIndex + 1].answerIndex

\* handleAnswer(optionIndex) with the countdown at tl, then the commit: the
\* countdown effect sees isAnswered and schedules nothing
G4HandleAnswer(optionIndex, tl, ts) ==
    IF G4AnswerIgnored
    THEN /\ timers' = ts
         /\ timeLeft' = tl
         /\ UNCHANGED <<isAnswered, selectedOption, score>>
    ELSE /\ isAnswered' = TRUE
         /\ timeLeft' = tl
         /\ selectedOption' = <<optionIndex>>
         /\ score' = ScoreAfter(G4IsCorrect(optionIndex))
         /\ timers' = CountdownEffect(ts, "game4", TRUE, FALSE, 0)
                        \cup {NextTimer(inst, currentQIndex, score)}

\* className of button i once the question is answered:
\* i === currentQuestion.answerIndex ? 'correct' : (i === selectedOption ? 'incorrect' : '')
G4ButtonClass(i) ==
    IF ~isAnswered THEN ""
    ELSE IF i = questions[currentQIndex + 1].answerIndex THEN "correct"
    ELSE IF <<i>> = selectedOption THEN "incorrect"
    ELSE ""

\* the click on one of the options of the displayed question
G4Click ==
    /\ Live(inst) /\ activeGameId = "game4"
    /\ ~isGameOver
    /\ ev' = IF G4AnswerIgnored THEN "click ignored" ELSE "click"
    /\ \E i \in 0 .. (Len(questions[currentQIndex + 1].options) - 1) :
            G4HandleAnswer(i, timeLeft, timers)
    /\ UNCHANGED <<activeGameId, inst, question, questions, currentQIndex,
                   inputValue, isGameOver, feedback, isLoading, requests, qNo,
                   hasKey, gen>>

\* the countdown timer fires: setTimeLeft(t => t - 1); the effect then either
\* schedules the next tick or, at 0, calls handleAnswer(-1)
G4Tick(t) ==
    /\ t \in timers /\ t.kind = "tick" /\ t.game = "game4" /\ Live(t.inst)
    /\ LET tl == timeLeft - 1
           rest == timers \ {t}
       IN  IF isGameOver \/ isAnswered \/ tl > 0
           THEN /\ ev' = "tick"
                /\ timeLeft' = tl
                /\ timers' = CountdownEffect(rest, "game4", TRUE,
                                 ~isGameOver /\ ~isAnswered /\ tl > 0, 0)
                /\ UNCHANGED <<isAnswered, selectedOption, score>>
           ELSE /\ ev' = IF G4AnswerIgnored THEN "timeout ignored" ELSE "timeout"
                /\ G4HandleAnswer(-1, tl, rest)
    /\ UNCHANGED <<activeGameId, inst, question, questions, currentQIndex,
                   inputValue, isGameOver, feedback, isLoading, requests, qNo,
                   hasKey, gen>>

\* G4HasNext with the bound off by one
G4HasNextShort(t) == t.currentQIndex < QuizLength - 2

\* currentQIndex < questions.length - 1, with the values nextQuestion closed over
G4HasNext(t) == t.currentQIndex < QuizLength - 1

\* const numCorrect = score / 10, with the score nextQuestion closed over
G4NumCorrect(t) == t.score \div PointsPerAnswer

\* setTimeout(nextQuestion, 1500) fires.  Unmounted: the setters are no-ops,
\* the getFeedback call of the else branch still starts its request.
G4NextQuestionFire(t) ==
    /\ t \in timers /\ t.kind = "nextQuestion"
    /\ ev' = "next"
    /\ IF G4HasNext(t)
       THEN /\ IF Live(t.inst)
               THEN /\ currentQIndex' = currentQIndex + 1
                    /\ isAnswered' = FALSE
                    /\ selectedOption' = NoSelection
                    /\ timeLeft' = CountdownStart
                    /\ timers' = CountdownEffect(timers \ {t}, "game4",
                                     isAnswered \/ timeLeft # CountdownStart, TRUE, 0)
               ELSE /\ timers' = timers \ {t}
                    /\ UNCHANGED <<currentQIndex, isAnswered, selectedOption, timeLeft>>
            /\ UNCHANGED <<isGameOver, feedback, isLoading, requests>>
       ELSE /\ isGameOver' = IF Live(t.inst) THEN TRUE ELSE isGameOver
            /\ feedback' = FeedbackOnCall(t.inst, "correct")
            /\ isLoading' = LoadingOnCall(t.inst)
            /\ requests' = RequestsOnCall(t.inst, "correct", G4NumCorrect(t))
            /\ timers' = timers \ {t}
            /\ UNCHANGED <<currentQIndex, isAnswered, selectedOption, timeLeft>>
    /\ UNCHANGED <<activeGameId, inst, question, questions, score, inputValue,
                   qNo, hasKey, gen>>

\* resetGame, the click on the button of the results panel
G4ResetGame ==
    /\ Live(inst) /\ activeGameId = "game4"
    /\ isGameOver
    /\ qNo < MaxQuestions
    /\ ev' = "reset"
    /\ isGameOver' = FALSE
    /\ score' = 0
    /\ currentQIndex' = 0
    /\ \E quiz \in G4QuizSample : questions' = quiz
    /\ isAnswered' = FALSE
    /\ selectedOption' = NoSelection
    /\ timeLeft' = CountdownStart
    /\ qNo' = qNo + 1
    /\ timers' = CountdownEffect(timers, "game4", TRUE, TRUE, 0)
    /\ UNCHANGED <<activeGameId, inst, question, inputValue, feedback, isLoading,
                   requests, hasKey, gen>>

-----------------------------------------------------------------------------

Next ==
    \/ HandleBackToMenu
    \/ \E id \in StartIds : HandleStartUnknown(id)
    \/ G1Mount
    \/ G1Change
    \/ G1Submit
    \/ \E t \in timers : G1Tick(t)
    \/ \E t \in timers : G1GenerateFire(t)
    \/ \E game \in GameIds : MCMount(game)
    \/ MCClick
    \/ \E t \in timers : MCGenerateFire(t)
    \/ G4Mount
    \/ G4Click
    \/ \E t \in timers : G4Tick(t)
    \/ \E t \in timers : G4NextQuestionFire(t)
    \/ G4ResetGame
    \/ \E r \in requests, text \in AiTexts : FeedbackResolve(r, text)
    \/ \E r \in requests : FeedbackReject(r)

Spec == Init /\ [][Next]_vars

\* The browser runs the callback of every pending setTimeout: the countdown
\* and the delayed nextQuestion of game 4 fire when they are due.
TimersFire ==
    /\ WF_vars(\E t \in timers : G4Tick(t))
    /\ WF_vars(\E t \in timers : G4NextQuestionFire(t))

SpecLive == Init /\ [][Next]_vars /\ TimersFire

-----------------------------------------------------------------------------
(* The generators on their whole range: each action is one call, with every  *)
(* value of every random draw and every arrangement of the shuffle.  gen     *)
(* keeps the question produced, and the point (x, pointY) shown by a         *)
(* point-membership question.                                                *)

Generated(game, type, q, x, pointY) ==
    [game |-> game, type |-> type, q |-> q, x |-> x, pointY |-> pointY]

\* a question of game 4 does not keep its coefficients: gen keeps them beside it
GeneratedG4(type, q, x, pointY, a, b) ==
    [game |-> "game4", type |-> type, q |-> q, x |-> x, pointY |-> pointY,
     a |-> a, b |-> b]

\* each behaviour of SpecGen is one call of one generator
AppUnchanged ==
    /\ gen.game = "none"
    /\ UNCHANGED <<activeGameId, inst, question, questions, currentQIndex, score,
                   timeLeft, inputValue, isAnswered, selectedOption, isGameOver,
                   feedback, isLoading, timers, requests, qNo, hasKey, ev>>

\* Game 1, generateQuestion
GenG1 ==
    /\ AppUnchanged
    /\ \E ra \in FloorRandom(G1RangeAB), rb \in FloorRandom(G1RangeAB), rx \in FloorRandom(G1RangeX) :
            gen' = Generated("game1", 0, G1Generate(ra, rb, rx), 0, 0)

\* Game 2, generateQuestion
GenG2 ==
    /\ AppUnchanged
    /\ \E type \in FloorRandom(QuestionTypes),
          c \in G2Coeffs(FloorRandom(CoeffRange), FloorRandom(CoeffRange)) :
            CASE type = 0 ->
                    \E o \in ShuffleArray(G2Case0Options(c.a, c.b)) :
                        gen' = Generated("game2", 0, G2Case0(c.a, c.b, o), 0, 0)
              [] type = 1 ->
                    \E o \in ShuffleArray(G2Case1Options(c.a, c.b)) :
                        gen' = Generated("game2", 1, G2Case1(c.a, c.b, o), 0, 0)
              [] OTHER ->
                    \E rx \in FloorRandom(G2RangeX), onLine \in BOOLEAN, up \in BOOLEAN,
                       rm \in FloorRandom(G2OffsetRange) :
                        gen' = Generated("game2", 2, G2Case2(c.a, c.b, rx, onLine, up, rm),
                                         rx - G2OffsetX,
                                         G2PointY(c.a, c.b, rx - G2OffsetX, onLine, up, rm))

\* Game 3, generateQuestion
GenG3 ==
    /\ AppUnchanged
    /\ \E type \in FloorRandom(QuestionTypes),
          ra \in FloorRandom(CoeffRange), sa \in BOOLEAN,
          rb \in FloorRandom(CoeffRange), sb \in BOOLEAN :
            LET a == SignedDraw(ra, sa)
                b == SignedDraw(rb, sb)
            IN  CASE type = 0 ->
                        \E o \in ShuffleArray(G3Case0Options(a, b)) :
                            gen' = Generated("game3", 0, G3Case0(a, b, o), 0, 0)
                  [] type = 1 -> gen' = Generated("game3", 1, G3Case1(a, b), 0, 0)
                  [] OTHER ->
                        \E o \in ShuffleArray(G3SignOptions) :
                            gen' = Generated("game3", 2, G3Case2(a, b, o), 0, 0)

\* Game 4, generateQuiz: one pass of the loop body
GenG4 ==
    /\ AppUnchanged
    /\ \E type \in FloorRandom(G4Types),
          ra \in FloorRandom(CoeffRange), sa \in BOOLEAN, rb \in FloorRandom(G4RangeB) :
            LET a == SignedDraw(ra, sa)
                b == rb - G4OffsetB
            IN  CASE type = 0 -> gen' = GeneratedG4(0, G4Case0(a, b), 0, 0, a, b)
                  [] type = 1 ->
                        \E o \in ShuffleArray(G4Case1Options(a, b)) :
                            gen' = GeneratedG4(1, G4Case1(a, b, o), 0, 0, a, b)
                  [] type = 2 ->
                        \E rx \in FloorRandom(G4RangeX), onLine \in BOOLEAN, up \in BOOLEAN :
                            gen' = GeneratedG4(2, G4Case2(a, b, rx, onLine, up),
                                               rx + 1, G4PointY(a, b, rx + 1, onLine, up),
                                               a, b)
                  [] type = 3 ->
                        \E up \in BOOLEAN, rd \in FloorRandom(G4DiffRange) :
                            \E o \in ShuffleArray(G4Case3Options(a, b, G4BDiff(b, up, rd))) :
                                gen' = GeneratedG4(3, G4Case3(a, b, G4BDiff(b, up, rd), o),
                                                   0, 0, a, b)
                  [] OTHER ->
                        \E ra4 \in FloorRandom(G4InterceptRange), sa4 \in BOOLEAN,
                           rk \in FloorRandom(G4InterceptRange), sb4 \in BOOLEAN :
                            LET a4 == G4InterceptA(ra4, sa4)
                                b4 == G4InterceptB(a4, rk, sb4)
                            IN  \E o \in ShuffleArray(G4Case4Options(a4, b4)) :
                                    gen' = GeneratedG4(4, G4Case4(a4, b4, o), 0, 0, a4, b4)

\* the arrays shuffleArray is called with on its own
ShuffleElements == {"p", "q", "r"}

ShuffleInputs == UNION {[1 .. n -> ShuffleElements] : n \in 0 .. MaxShuffleLen}

\* the caller's array after shuffleArray(array): sort works on the copy [...array]
ArrayAfterShuffle(array) == array

\* shuffleArray(array): gen keeps the argument, the result and the argument
\* after the call
GenShuffle ==
    /\ AppUnchanged
    /\ \E array \in ShuffleInputs : \E o \in ShuffleArray(array) :
            gen' = Generated("shuffle", 0,
                             [input |-> array, options |-> o, after |-> ArrayAfterShuffle(array)],
                             0, 0)

NextGen == GenG1 \/ GenG2 \/ GenG3 \/ GenG4 \/ GenShuffle

SpecGen == Init /\ [][NextGen]_vars

-----------------------------------------------------------------------------
(* Claims *)

\* the callbacks through which an answer reaches a game
AnswerEvents == {"submit", "click", "timeout"}
IgnoredEvents == {"submit ignored", "click ignored", "timeout ignored"}

\* the questions presented so far by the mounted game
Presented == IF activeGameId = "game4" THEN currentQIndex + 1 ELSE qNo

\* C1, first half: in games 1-4 a submit, a selection or a timeout that arrives
\* while the displayed question is already answered is dropped: the score, the
\* timers, the requests, the feedback and the selection stay as they were.
C1_LockedStep ==
    (Live(inst) /\ isAnswered /\ ev' \in AnswerEvents \cup IgnoredEvents)
        => /\ ev' \in IgnoredEvents
           /\ UNCHANGED <<score, timers, requests, feedback, isLoading, isAnswered,
                          selectedOption, question, questions, currentQIndex, qNo>>

\* C1, second half: the score is at most 10 per presented question that has
\* been answered.
C1_ScoreBound ==
    Live(inst) =>
        score <= PointsPerAnswer * (IF isAnswered THEN Presented ELSE Presented - 1)

\* C1: Lockout.  Once the question is answered, further submits, selections
\* and timeouts before the next question change nothing and judge nothing, so
\* the score grows by at most 10 per presented question.
C1_Lockout == [][C1_LockedStep]_vars /\ []C1_ScoreBound

\* C1 witness: a submit arrived after a correct answer and was dropped.
C1_Witness ==
    /\ ev = "submit ignored"
    /\ activeGameId = "game1"
    /\ isAnswered
    /\ score = PointsPerAnswer
    /\ qNo = 1

\* what judging the displayed question as incorrect does: no point, the
\* question answered, the delayed transition scheduled, and in games 1-3 the
\* feedback call of type 'incorrect'
IncorrectEffects ==
    /\ score' = score
    /\ ~isAnswered /\ isAnswered'
    /\ activeGameId = "game4" =>
            /\ timers' \ timers = {NextTimer(inst, currentQIndex, score)}
            /\ UNCHANGED <<feedback, isLoading, requests>>
    /\ activeGameId # "game4" =>
            /\ timers' \ timers = {GenerateTimer(inst, activeGameId)}
            /\ feedback'.type = "incorrect"
            /\ hasKey => /\ requests' \ requests = {Request(inst, "incorrect", -1)}
                         /\ isLoading'
                         /\ feedback'.message = ""
            /\ ~hasKey => /\ requests' = requests
                          /\ feedback'.message = FallbackIncorrect

\* the countdown of the mounted timed game reaches 0 on an unanswered question
CountdownExpires ==
    /\ Live(inst) /\ activeGameId \in {"game1", "game4"}
    /\ ~isAnswered
    /\ timeLeft # 0 /\ timeLeft' = 0
    /\ inst' = inst /\ activeGameId' = activeGameId

\* an explicit answer that is judged incorrect
ExplicitIncorrect ==
    /\ ev' \in {"submit", "click"}
    /\ activeGameId \in {"game1", "game4"}
    /\ score' = score

\* C2: Timeout equivalence.  In games 1 and 4, when the countdown reaches 0 on
\* an unanswered question the question is judged as an explicit incorrect
\* answer is judged: score +0, answered, the same delayed transition scheduled,
\* whatever was typed or selected.
C2_TimeoutAsIncorrect ==
    [][(CountdownExpires => ev' = "timeout" /\ IncorrectEffects)
       /\ (ExplicitIncorrect => IncorrectEffects)]_vars

\* C2 witness: game 1 timed out with the correct y typed into the field, and
\* no point was given.
C2_Witness ==
    /\ ev = "timeout"
    /\ activeGameId = "game1"
    /\ inputValue = IntChars(question.y)
    /\ isAnswered
    /\ timeLeft = 0
    /\ score = 0

\* the largest |y| game 1 can ask for, plus one
G1AnswerBound == G1OffsetAB * G1OffsetX + G1OffsetAB + 1

\* C3: Judging rule of game 1.  On an explicit submission of an unanswered
\* question the answer is correct exactly when the submitted integer is y:
\* then the score grows by exactly 10 and the feedback type is 'correct'; a
\* wrong integer or a blank field adds 0 and the feedback type is 'incorrect'.
C3_JudgingRule ==
    [][(ev' = "submit" /\ activeGameId = "game1") =>
          /\ \A n \in -G1AnswerBound .. G1AnswerBound :
                inputValue = IntChars(n) =>
                    IF n = question.y
                    THEN score' = score + 10 /\ feedback'.type = "correct"
                    ELSE score' = score /\ feedback'.type = "incorrect"
          /\ inputValue = <<>> => score' = score /\ feedback'.type = "incorrect"
      ]_vars

\* C3 witness: the correct integer was submitted and 10 points were given.
C3_Witness ==
    /\ ev = "submit"
    /\ activeGameId = "game1"
    /\ inputValue = IntChars(question.y)
    /\ score = 10
    /\ feedback.type = "correct"

\* the recorded correct answer of a generated multiple-choice question
CorrectOption(g) ==
    IF g.game = "game4" THEN g.q.options[g.q.answerIndex + 1] ELSE g.q.answer

MultipleChoice(g) == g.game \in {"game2", "game3", "game4"}

\* C4: every multiple-choice question generated in games 2, 3 and 4 has
\* exactly one option equal to the recorded correct answer.
C4_ExactlyOneCorrectOption ==
    MultipleChoice(gen) =>
        Cardinality({i \in 1 .. Len(gen.q.options) : gen.q.options[i] = CorrectOption(gen)}) = 1

\* C5: every multiple-choice question generated in games 2, 3 and 4 has no
\* two equal options.
C5_NoDuplicateOptions ==
    MultipleChoice(gen) =>
        \A i, j \in 1 .. Len(gen.q.options) : i # j => gen.q.options[i] # gen.q.options[j]

\* C6: the stored answer is the one recomputed from the stored coefficients:
\* game 1 stores y = a*x + b; game 2 stores (0, b) for the y-intercept and
\* (n, 0) with a*n = -b for the x-intercept; game 3 stores the equation of a
\* and b, 'increasing' exactly when a > 0, and the signs of a and b.
C6_StoredAnswerRecomputes ==
    LET q == gen.q
    IN  /\ gen.game = "game1" => q.y - q.b = q.a * q.x
        /\ (gen.game = "game2" /\ gen.type = 0) =>
                q.answer = "(0, " \o ToString(q.b) \o ")"
        /\ (gen.game = "game2" /\ gen.type = 1) =>
                \E n \in -CoeffRange .. CoeffRange :
                    q.a * n = -q.b /\ q.answer = "(" \o ToString(n) \o ", 0)"
        /\ (gen.game = "game3" /\ gen.type = 0) =>
                q.answer = (IF q.b >= 0
                            THEN "y = " \o ToString(q.a) \o "x + " \o ToString(q.b)
                            ELSE "y = " \o ToString(q.a) \o "x - " \o ToString(-q.b))
        /\ (gen.game = "game3" /\ gen.type = 1) =>
                /\ q.a > 0 => q.answer = Increasing
                /\ q.a < 0 => q.answer = Decreasing
                /\ q.a # 0
        /\ (gen.game = "game3" /\ gen.type = 2) =>
                /\ (q.a > 0 /\ q.b > 0) => q.answer = "a > 0, b > 0"
                /\ (q.a > 0 /\ q.b < 0) => q.answer = "a > 0, b < 0"
                /\ (q.a < 0 /\ q.b > 0) => q.answer = "a < 0, b > 0"
                /\ (q.a < 0 /\ q.b < 0) => q.answer = "a < 0, b < 0"
                /\ q.a # 0 /\ q.b # 0

\* C6 witness: game 1 drew 0 for a, stored a = 1, and stored y = 1*4 - 2 = 2.
C6_Witness ==
    /\ gen.game = "game1"
    /\ gen.q = [a |-> 1, b |-> -2, x |-> 4, y |-> 2]

\* C7: at most one feedback request of a game instance is in flight.
C7_AtMostOneInFlight ==
    \A i \in 1 .. inst : Cardinality({r \in requests : r.inst = i}) <= 1

\* C8: no timer is pending whose owning component is unmounted: every timer
\* is cleared at the latest when its component is torn down.
C8_TimersClearedOnTeardown == \A t \in timers : Live(t.inst)

\* C9: in games 1-3 the feedback is empty for as long as the displayed question
\* awaits its answer; a response to an earlier question never fills it.
C9_FeedbackEmptyWhileAwaiting ==
    (Live(inst) /\ activeGameId \in {"game1", "game2", "game3"} /\ ~isAnswered)
        => feedback = EmptyFeedback

\* the feedback type of the getFeedback call a step of the mounted game made
\* without a credential: a judgement of games 1-3 or the end of the quiz
CalledWithoutKey ==
    /\ ~hasKey /\ Live(inst)
    /\ \/ ev' \in AnswerEvents /\ activeGameId # "game4"
       \/ ev' = "next" /\ isGameOver' /\ ~isGameOver

\* C10: Feedback fallback.  After getFeedback(prompt, type) without a
\* credential, and after a rejected remote call, the feedback is the fixed
\* fallback message of that type with that type, one of exactly two strings,
\* and the loading flag is false.
C10_FeedbackFallback ==
    [][/\ CalledWithoutKey =>
            /\ feedback'.type \in {"correct", "incorrect"}
            /\ feedback'.type = "correct" <=> (score' # score \/ activeGameId = "game4")
            /\ feedback'.message =
                    (IF feedback'.type = "correct" THEN "Chinh xac! Lam tot lam!"
                     ELSE "Khong dung roi. Co gang lai nhe!")
            /\ ~isLoading'
       /\ ev' = "reject" =>
            \A r \in requests \ requests' :
                Live(r.inst) =>
                    /\ feedback'.type = r.type
                    /\ feedback'.message =
                            (IF r.type = "correct" THEN "Chinh xac! Lam tot lam!"
                             ELSE "Khong dung roi. Co gang lai nhe!")
                    /\ ~isLoading'
      ]_vars

\* C10 witness: the remote call for an incorrect answer was rejected.
C10_Witness ==
    /\ ev = "reject"
    /\ Live(inst)
    /\ isAnswered
    /\ feedback = [message |-> FallbackIncorrect, type |-> "incorrect"]
    /\ ~isLoading

\* C11: Loading flag.  In every reachable state of a mounted game instance
\* isLoading is true exactly while a feedback request of that instance is in
\* flight: true from the start of the call, false once it has settled, and
\* not false while any request of the instance is pending.
C11_LoadingWhileInFlight ==
    Live(inst) => (isLoading <=> \E r \in requests : r.inst = inst)

\* game 4 is the mounted game
G4Live == Live(inst) /\ activeGameId = "game4"

\* a step that judges the displayed question of game 4
G4Judged == G4Live /\ ~isAnswered /\ isAnswered' /\ ~isGameOver

\* C12, the steps: the game is over only from the answered last question;
\* the index moves only from an answered question to the next one, or back to
\* 0 on reset; the score grows by 10 exactly on the judgement that selected
\* the answerIndex of the displayed question and changes nowhere else but on
\* reset; while the game is over, nothing but resetGame (or leaving the game)
\* changes currentQIndex or score.
C12_TerminalStep ==
    /\ (G4Live /\ ~isGameOver /\ isGameOver') =>
            /\ currentQIndex = 9
            /\ isAnswered
            /\ UNCHANGED <<currentQIndex, score>>
    /\ (G4Live /\ activeGameId' = "game4" /\ currentQIndex' # currentQIndex) =>
            \/ currentQIndex' = currentQIndex + 1 /\ isAnswered /\ ~isGameOver
            \/ currentQIndex' = 0 /\ ev' = "reset"
    /\ G4Judged =>
            score' = IF selectedOption' = <<questions[currentQIndex + 1].answerIndex>>
                     THEN score + 10 ELSE score
    /\ (G4Live /\ activeGameId' = "game4" /\ score' # score) =>
            G4Judged \/ (ev' = "reset" /\ score' = 0)
    /\ (G4Live /\ isGameOver /\ ev' \notin {"reset", "back"}) =>
            UNCHANGED <<currentQIndex, score, isGameOver>>

\* C12, the states: the index stays within the ten questions, and the score is
\* at most 10 per judged question, 100 at most.
C12_TerminalState ==
    G4Live =>
        /\ currentQIndex \in 0 .. 9
        /\ score <= 10 * (currentQIndex + (IF isAnswered THEN 1 ELSE 0))
        /\ isGameOver => (currentQIndex = 9 /\ isAnswered)

\* C12: Game 4 terminal state.  isGameOver becomes true only after the ten
\* questions, indices 0..9 in order, have each been judged once; the score is
\* then 10 times the number of correct answers; while isGameOver holds no
\* click, tick or timer changes currentQIndex or score until resetGame.
C12_Game4Terminal == [][C12_TerminalStep]_vars /\ []C12_TerminalState

\* C12 witness: the quiz is over with the ten questions answered correctly.
C12_Witness ==
    /\ G4Live
    /\ isGameOver
    /\ currentQIndex = 9
    /\ score = 100

\* C13: Game 4 progress.  With the countdown and the post-answer timer firing
\* when due, from every state of the mounted quiz with isGameOver false the
\* quiz reaches isGameOver true (or the player has left the game), also when
\* no option is ever selected.
C13_Game4Progress == (G4Live /\ ~isGameOver) ~> (isGameOver \/ ~G4Live)

\* C13 witness: the quiz is over, the last question timed out and no point
\* was scored.
C13_Witness ==
    /\ G4Live
    /\ isGameOver
    /\ timeLeft = 0
    /\ selectedOption = <<-1>>
    /\ score = 0

\* one of games 1-3 is the mounted game
G123Live == Live(inst) /\ activeGameId \in {"game1", "game2", "game3"}

\* the pending post-answer timers of the mounted instance
PendingGenerate == {t \in timers : t.kind = "generateQuestion" /\ t.inst = inst}

\* a step that replaces the displayed question of the mounted game by a new one
NewQuestion == G123Live /\ activeGameId' = activeGameId /\ inst' = inst /\ qNo' = qNo + 1

\* C14, the steps: a judgement schedules one generation; a generation happens
\* only from an answered question and leaves the awaiting state, in which
\* nothing of the previous question remains but the score.
C14_CycleStep ==
    /\ (G123Live /\ ~isAnswered /\ isAnswered') =>
            timers' \ timers = {GenerateTimer(inst, activeGameId)}
    /\ NewQuestion =>
            /\ isAnswered /\ ~isAnswered'
            /\ PendingGenerate # {} /\ PendingGenerate' = {}
            /\ inputValue' = <<>>
            /\ selectedOption' = NoSelection
            /\ activeGameId = "game1" => timeLeft' = 15
            /\ feedback' = EmptyFeedback
            /\ isLoading' = FALSE
            /\ score' = score

\* C14, the states: a generation is pending exactly while the displayed
\* question is answered.
C14_CycleState == G123Live => (isAnswered <=> PendingGenerate # {})

\* C14: Question cycle in games 1-3.  Every judged answer is followed, after
\* the delay, by exactly one generation of a new question that returns the game
\* to the awaiting state (isAnswered false, selection and input cleared, game 1
\* timeLeft = 15); a question is never generated while the displayed one is
\* unanswered; only the score carries over between questions.
C14_QuestionCycle == [][C14_CycleStep]_vars /\ []C14_CycleState

\* the number of times e occurs in the array s
Count(s, e) == Cardinality({i \in 1 .. Len(s) : s[i] = e})

\* C15: shuffleArray returns a permutation of its argument (the same length,
\* every element as many times as in the argument) and leaves the argument as
\* it was, for every argument and every outcome of the comparator.
C15_ShufflePermutation ==
    gen.game = "shuffle" =>
        /\ Len(gen.q.options) = Len(gen.q.input)
        /\ \A e \in Range(gen.q.input) \cup Range(gen.q.options) :
                Count(gen.q.options, e) = Count(gen.q.input, e)
        /\ gen.q.after = gen.q.input

\* C15 witness: an array with a repeated element came back in another order.
C15_Witness ==
    /\ gen.game = "shuffle"
    /\ gen.q.input = <<"p", "p", "q">>
    /\ gen.q.options = <<"q", "p", "p">>

\* the coefficients a generator call worked with
GenA == IF gen.game = "game4" THEN gen.a ELSE gen.q.a
GenB == IF gen.game = "game4" THEN gen.b ELSE gen.q.b

\* the generator call computed an x-intercept
ComputesXIntercept ==
    \/ gen.game = "game2" /\ gen.type = 1
    \/ gen.game = "game4" /\ gen.type = 4

\* C16: every generator of games 1-4 produces integer coefficients with
\* a # 0; where the x-intercept -b/a is computed (game 2 type 1, game 4 type
\* 4), a divides b and the intercept shown is a nonzero integer.
C16_NonZeroSlopeIntegerIntercept ==
    gen.game \in GameIds =>
        /\ GenA \in Int /\ GenB \in Int
        /\ GenA # 0
        /\ ComputesXIntercept =>
                \E n \in (-5 .. 5) \ {0} :
                    /\ GenA * n = -GenB
                    /\ CorrectOption(gen) = "(" \o ToString(n) \o ", 0)"

\* C16 witness: game 4 drew a = -4 and b = 16 again for an x-intercept
\* question; the intercept is 4.
C16_Witness ==
    /\ gen.game = "game4"
    /\ gen.type = 4
    /\ gen.a = -4
    /\ gen.b = 16
    /\ CorrectOption(gen) = "(4, 0)"

\* C17, the steps: handleStartGame with one of the four identifiers renders
\* that game, with another non-empty identifier the placeholder;
\* handleBackToMenu returns to the menu.
C17_RoutingStep ==
    /\ ev' = "start" =>
            /\ Rendered = "menu"
            /\ activeGameId' # NullId /\ activeGameId' # ""
            /\ \A id \in {"game1", "game2", "game3", "game4"} :
                    activeGameId' = id => Rendered' = id
            /\ activeGameId' \notin {"game1", "game2", "game3", "game4"} =>
                    Rendered' = "not found"
    /\ ev' = "back" =>
            /\ Rendered # "menu"
            /\ activeGameId' = NullId
            /\ Rendered' = "menu"

\* C17, the states: the app shows the menu exactly when activeGameId is null,
\* and otherwise one game or the placeholder.
C17_RoutingState ==
    /\ Rendered \in {"menu", "game1", "game2", "game3", "game4", "not found"}
    /\ Rendered = "menu" <=> activeGameId = NullId

\* C17: Routing.  The app is in exactly one of two states, menu or in-game;
\* handleStartGame(id) with 'game1'..'game4' renders that game, with any other
\* non-empty identifier the 'game not found' placeholder, and handleBackToMenu
\* returns to the menu from any game.
C17_Routing == [][C17_RoutingStep]_vars /\ []C17_RoutingState

\* one of the timed games is the mounted game
TimedLive == Live(inst) /\ activeGameId \in {"game1", "game4"}

\* C19, the steps: a timer tick takes exactly 1 from timeLeft and happens only
\* on an unanswered question of a quiz that is not over; timeLeft changes in
\* no other way than by a tick or by the reset to 15 of a new question (or of
\* a new quiz, or of leaving the game); while the question stays answered
\* timeLeft stays.
C19_CountdownStep ==
    /\ (TimedLive /\ ev' \in {"tick", "timeout"}) =>
            /\ timeLeft' = timeLeft - 1
            /\ ~isAnswered /\ ~isGameOver
    /\ (TimedLive /\ timeLeft' # timeLeft) =>
            \/ ev' \in {"tick", "timeout"} /\ timeLeft' = timeLeft - 1
            \/ ev' \in {"generate", "next", "reset", "back"} /\ timeLeft' = 15
    /\ (TimedLive /\ isAnswered /\ isAnswered' /\ ev' # "back") => timeLeft' = timeLeft

\* C19, the states: the countdown stays within 0..15.
C19_CountdownState == TimedLive => timeLeft \in 0 .. 15

\* C19: Countdown in games 1 and 4.  In every reachable state
\* 0 <= timeLeft <= 15; timeLeft decreases by exactly 1 per timer tick and only
\* while the question is unanswered (and, in game 4, the game is not over);
\* while the question is answered timeLeft does not change until the next
\* question resets it to 15.
C19_Countdown == [][C19_CountdownStep]_vars /\ []C19_CountdownState

\* C19 witness: the countdown of game 1 has come down to 1 by ticks.
C19_Witness ==
    /\ ev = "tick"
    /\ activeGameId = "game1"
    /\ ~isAnswered
    /\ timeLeft = 1

\* C20: Game 4 final feedback.  On entering game-over one feedback request is
\* issued, and the number of correct answers named in its prompt is the final
\* score divided by 10: it counts all ten questions, the last one included.
C20_FinalFeedbackCountsAll ==
    [][(G4Live /\ ~isGameOver /\ isGameOver') =>
          /\ feedback'.type = "correct"
          /\ hasKey =>
                \E r \in requests' :
                    /\ requests' \ requests = {r}
                    /\ r.inst = inst
                    /\ r.numCorrect * 10 = score'
      ]_vars

\* C21 in games 2 and 3: the selected string is judged against the answer
\* string, and its button is highlighted accordingly.
C21_TextStep23 ==
    (ev' = "click" /\ Live(inst) /\ activeGameId \in {"game2", "game3"}) =>
        \A opt \in Range(question.options) :
            selectedOption' = <<opt>> =>
                IF opt = question.answer
                THEN score' = score + 10 /\ MCButtonClass(opt)' = "correct"
                ELSE score' = score /\ MCButtonClass(opt)' = "incorrect"

\* C21 in game 4: the string of the selected button is judged against the
\* string of options[answerIndex].
C21_TextStep4 ==
    (ev' = "click" /\ G4Live) =>
        LET q == questions[currentQIndex + 1]
        IN  \A i \in 0 .. (Len(q.options) - 1) :
                selectedOption' = <<i>> =>
                    IF q.options[i + 1] = q.options[q.answerIndex + 1]
                    THEN score' = score + 10 /\ G4ButtonClass(i)' = "correct"
                    ELSE score' = score /\ G4ButtonClass(i)' = "incorrect"

\* C21: the judgement depends only on the option's text, not on its position.
\* In games 2, 3 and 4 selecting a rendered option whose string equals the
\* correct answer's string is judged correct (score +10, highlighted as
\* correct), and selecting an option with another string is judged incorrect.
C21_JudgedByText == [][C21_TextStep23 /\ C21_TextStep4]_vars

\* a step of a timed game that stays in the game
TimedStays == TimedLive /\ inst' = inst /\ activeGameId' = activeGameId

\* a step that presents a new question of a timed game: the next question of
\* game 1, the next question of game 4 or the first question of a new quiz
NewTimedQuestion ==
    /\ TimedStays
    /\ \/ qNo' = qNo + 1
       \/ activeGameId = "game4" /\ currentQIndex' # currentQIndex

\* the countdown of the mounted game is running: its next tick is scheduled
CountdownRunning == \E t \in timers : t.kind = "tick" /\ t.inst = inst

\* C22, the steps: presenting a question leaves it unanswered with 15 on the
\* countdown and the countdown running, and judges nothing; a timeout is the
\* tick from 1 to 0; between the presentation and the judgement timeLeft only
\* goes down, by 1 and by a tick.  So 15 ticks lie between the presentation
\* of a question and its timeout.
C22_FullCountdownStep ==
    /\ NewTimedQuestion =>
            /\ timeLeft' = 15
            /\ ~isAnswered'
            /\ ev' \notin {"timeout", "timeout ignored"}
            /\ CountdownRunning'
            /\ score' = score \/ ev' = "reset"
    /\ (TimedLive /\ ev' = "timeout") =>
            /\ ~NewTimedQuestion
            /\ timeLeft = 1 /\ timeLeft' = 0
            /\ ~isAnswered /\ isAnswered'
    /\ (TimedStays /\ ~NewTimedQuestion) =>
            \/ timeLeft' = timeLeft
            \/ timeLeft' = timeLeft - 1 /\ ev' \in {"tick", "timeout"}

\* C22, the states: the first question of a game starts with 15 as well, and
\* an unanswered question is never shown with 0 on the countdown.
C22_FullCountdownState ==
    TimedLive =>
        /\ ev = "start" => (timeLeft = 15 /\ ~isAnswered /\ CountdownRunning)
        /\ (~isAnswered /\ ~isGameOver) => (timeLeft \in 1 .. 15 /\ CountdownRunning)

\* C22: every newly presented question of games 1 and 4 gets a full
\* countdown: it is never judged as a timeout before 15 countdown ticks have
\* elapsed for it, in particular when the previous question ended by a timeout
\* with timeLeft = 0 and the updates isAnswered := false, timeLeft := 15 that
\* present the next question are applied.
C22_FullCountdown == [][C22_FullCountdownStep]_vars /\ []C22_FullCountdownState

\* C22 witness: the second question of game 1 has timed out in its turn.
C22_Witness ==
    /\ activeGameId = "game1"
    /\ qNo = 2
    /\ ev = "timeout"
    /\ timeLeft = 0
    /\ isAnswered

\* the generator call produced a point-membership question
PointMembership == gen.game \in {"game2", "game4"} /\ gen.type = 2

\* the text of the point M(x, pointY) as the prompt shows it
ShownPoint == "Diem M(" \o ToString(gen.x) \o ", " \o ToString(gen.pointY) \o ")"

\* the prompt of the generated question
GenPrompt == IF gen.game = "game4" THEN gen.q.prompt ELSE gen.q.promptText

\* C23: point-membership questions (game 2 type 2, game 4 type 2).  The
\* recorded correct answer is 'yes' exactly when the displayed point
\* M(x, pointY) satisfies pointY = a*x + b for the question's coefficients, and
\* 'no' otherwise; the offset added to y for a point off the line is never 0.
C23_PointMembership ==
    PointMembership =>
        /\ GenPrompt \in
                {ShownPoint \o " co thuoc do thi ham so khong?",
                 "Cho ham so " \o formatEquation(GenA, GenB) \o ". " \o ShownPoint
                        \o " co thuoc do thi khong?"}
        /\ CorrectOption(gen) \in {"Co", "Khong"}
        /\ CorrectOption(gen) = "Co" <=> gen.pointY = GenA * gen.x + GenB
        /\ CorrectOption(gen) = "Khong" <=> gen.pointY # GenA * gen.x + GenB

\* C23 witness: game 2 showed a point 2 below the line and recorded 'no'.
C23_Witness ==
    /\ gen.game = "game2"
    /\ gen.type = 2
    /\ gen.q.answer = "Khong"
    /\ gen.pointY = gen.q.a * gen.x + gen.q.b - 2

====
